---- MODULE Spec2Model ----
(***************************************************************************)
(* Model of the dedup index command: the per-root pipeline of              *)
(* Index.Execute (walker -> path stream -> P digesters -> entry stream ->  *)
(* drain loop writing the store), with the done channel as cancellation.   *)
(*                                                                         *)
(* Two revisions of Index.Execute are in the repository:                   *)
(*   - the filtering revision (accept/reject patterns, drain loop that     *)
(*     logs entry errors and upserts rows): strict = FALSE;                *)
(*   - commands/index/command.go (migrations, drain loop that returns on   *)
(*     the first entry error and writes nothing): strict = TRUE.           *)
(* visit and digest are the same in both but for the filter loops, which   *)
(* the strict revision lacks (its accept and reject lists are empty).      *)
(*                                                                         *)
(* A file system object is named by its position in walk order; its path   *)
(* under root directory d is <<d, i>>.  A compiled pattern is the set of   *)
(* positions whose path it matches.  Unbuffered channel operations are     *)
(* rendezvous: one action moves sender and receiver together.              *)
(***************************************************************************)
EXTENDS Integers, Sequences, FiniteSets, Bags, TLC

MaxFiles == 3
MaxParallelism == 2
MaxRoots == 2
MaxFaults == 2

Files == 1..MaxFiles
Workers == 1..MaxParallelism
RootIdx == 1..MaxRoots

\* what filepath.Walk finds at a position: a readable regular file, a regular
\* file whose open or read fails, a non-regular object, an enumeration error
ObjectKinds == {"file", "unreadable", "dir", "bad"}

NoErr == "nil"
WalkCanceled == "walk canceled"
EnumErr == "lstat failed"
OpenErr == "open failed"

VARIABLES
    strict,       \* which revision of Execute runs
    up,           \* cmd.Up (strict revision)
    down,         \* cmd.Down (strict revision)
    migrated,     \* the migration applied: "none", "up", "down"
    parallelism,  \* cmd.Parallelism
    roots,        \* the paths argument: root directories, in order
    tree,         \* tree[i]: what the walk finds at position i of a root
    accepts,      \* cmd.Accepts
    rejects,      \* cmd.Rejects
    bucket,       \* cmd.Bucket
    prior,        \* the rows of table entries when Execute starts
    opc,          \* where Execute (the calling goroutine) is
    cur,          \* index in roots of the root being processed
    ent,          \* the entry the drain loop is storing
    retErr,       \* Execute's return value once opc = "returned"
    rootStatus,   \* per root: "pending", "running", "done", "failed"
    done,         \* per root, the done channel: "none", "open", "closed"
    paths,        \* per root, the paths channel: "none", "open", "closed"
    entries,      \* per root, the entries channel: "none", "open", "closed"
    errs,         \* the buffered errs channel of the running root (cap. 1)
    wpc,          \* per root, its walker goroutine: "none", "walking",
                  \* "closing" (result sent on errs, paths not yet closed),
                  \* "exited"
    wpos,         \* position the walk callback is called for next
    dpc,          \* per digester: "none", "ranging", "sending", "exited"
    dent,         \* per digester: the entry it is trying to send
    wg,           \* the WaitGroup counter
    watch,        \* watcher goroutine: "none", "waiting", "exited"
    store,        \* table entries: the bag of its rows
    openTx,       \* transactions begun, neither committed nor rolled back
    hist          \* observations of the run (never read by the program)

vars == <<strict, up, down, migrated, parallelism, roots, tree, accepts, rejects, bucket, prior, opc, cur, ent,
          retErr, rootStatus, done, paths, entries, errs, wpc, wpos, dpc,
          dent, wg, watch, store, openTx, hist>>

config == <<strict, up, down, parallelism, roots, tree, accepts, rejects,
            bucket, prior>>
walker == <<wpc, wpos, errs>>
digesters == <<dpc, dent, wg>>
chans == <<done, paths, entries>>
database == <<store, openTx, migrated>>

NoEntry == [path |-> <<0, 0>>, hash |-> "", bucket |-> "", size |-> 0, err |-> NoErr]

(***************************************************************************)
(* Pure functions                                                          *)
(***************************************************************************)

\* content of the readable file at position i (positions 2.. share content)
Content(i) == IF i = 1 THEN "world!" ELSE "hello"

\* io.Copy's byte count
ByteCount(c) == IF c = "hello" THEN 5 ELSE 6

\* hex.EncodeToString(sha256 of the content): one digest per content
Sha256Hex(c) == <<"sha256", c>>

\* a pattern text: whether regexp.Compile accepts it and, if so, the positions
\* whose path the compiled expression matches
Pattern(ps) == [valid |-> TRUE, matches |-> ps]
BadPattern == [valid |-> FALSE, matches |-> {}]

\* regexp.MatchString of a compiled pattern on the path at position i
MatchString(re, i) == i \in re.matches

\* variant: one matching accept pattern is enough
PassesFilterAny(i) ==
    /\ accepts = {} \/ \E a \in accepts : MatchString(a, i)
    /\ ~ \E r \in rejects : MatchString(r, i)

\* variant: the reject loop skips the file on a pattern that does not match
PassesFilterRejectInverted(i) ==
    /\ \A a \in accepts : MatchString(a, i)
    /\ ~ \E r \in rejects : ~MatchString(r, i)

\* visit's filter loops: any accept that does not match skips the file, then
\* any reject that matches skips it
PassesFilter(i) ==
    /\ \A a \in accepts : MatchString(a, i)
    /\ ~ \E r \in rejects : MatchString(r, i)

\* variant: directories pass the test as well
IsRegularOrDir(i) == tree[i] \in {"file", "unreadable", "dir"}

\* info.Mode().IsRegular()
IsRegular(i) == tree[i] \in {"file", "unreadable"}

\* variant: the path is hashed along with the content
DigestFileSalted(p) ==
    IF tree[p[2]] = "unreadable"
    THEN [path |-> p, hash |-> "", bucket |-> bucket, size |-> 0, err |-> OpenErr]
    ELSE [path |-> p, hash |-> Sha256Hex(Content(p[2])) \o <<p>>, bucket |-> bucket,
          size |-> ByteCount(Content(p[2])), err |-> NoErr]

\* variant: on a failure the entry carries the count of the bytes read so far
DigestFilePartialSize(p) ==
    IF tree[p[2]] = "unreadable"
    THEN [path |-> p, hash |-> "", bucket |-> bucket, size |-> 1, err |-> OpenErr]
    ELSE [path |-> p, hash |-> Sha256Hex(Content(p[2])), bucket |-> bucket,
          size |-> ByteCount(Content(p[2])), err |-> NoErr]

\* the anonymous function of digest: open, hash and count the file
DigestFile(p) ==
    IF tree[p[2]] = "unreadable"
    THEN [path |-> p, hash |-> "", bucket |-> bucket, size |-> 0, err |-> OpenErr]
    ELSE [path |-> p, hash |-> Sha256Hex(Content(p[2])), bucket |-> bucket,
          size |-> ByteCount(Content(p[2])), err |-> NoErr]

\* the row bound by stmt.Exec for an entry
RowOf(e) == [hash |-> e.hash, path |-> e.path, dir |-> e.path[1],
             name |-> e.path[2], bucket |-> e.bucket, size |-> e.size]

\* the rows of table s that conflict with row under PRIMARY KEY(hash, path)
Conflicting(s, row) ==
    {r \in BagToSet(s) : r.hash = row.hash /\ r.path = row.path}

\* variant: a table without the primary key, the row is added
UpsertNoKey(s, row) == s (+) SetToBag({row})

\* variant: the table's key is the path alone, every row of the path is
\* replaced
UpsertByPath(s, row) ==
    LET kept == {r \in BagToSet(s) : r.path # row.path}
    IN  [r \in kept \cup {row} |-> IF r \in kept THEN s[r] ELSE 1]

\* variant: INSERT OR IGNORE, a row whose key is in the table is left as it is
UpsertIgnore(s, row) ==
    IF Conflicting(s, row) # {} THEN s ELSE s (+) SetToBag({row})

\* INSERT OR REPLACE under PRIMARY KEY(hash, path): the conflicting rows are
\* deleted and the row is inserted
Upsert(s, row) ==
    LET kept == BagToSet(s) \ Conflicting(s, row)
    IN  [r \in kept \cup {row} |-> IF r \in kept THEN s[r] ELSE 1]

\* regexp.Compile fails on one of the patterns
CompileFails == \E re \in accepts \cup rejects : ~re.valid

Bump(f, r, i) == [f EXCEPT ![r][i] = @ + 1]

(***************************************************************************)
(* Initial states                                                          *)
(***************************************************************************)

ZeroCount == [r \in RootIdx |-> [i \in Files |-> 0]]

HistInit ==
    [emitted     |-> ZeroCount,  \* sends on the paths channel, per position
     received    |-> ZeroCount,  \* entries the drain loop received
     begun       |-> ZeroCount,  \* db.Begin calls made for an entry
     digestLog   |-> [r \in RootIdx |-> {}],  \* "error processing entry"
     persistLog  |-> [r \in RootIdx |-> {}],  \* "error storing entry"
     afterCancel |-> 0,          \* paths sent after done was closed
     abandoned   |-> [w \in Workers |-> 0],  \* entries dropped on <-done
     delivered   |-> ZeroCount,  \* receives from the paths channel
     dropped     |-> ZeroCount,  \* entries dropped on <-done, per position
     closed      |-> [c \in {"done", "paths", "entries"} |->
                          [r \in RootIdx |-> 0]],  \* close() calls
     result      |-> [r \in RootIdx |-> <<>>],  \* what Walk returned
     called      |-> "none"]    \* migration.Up() or migration.Down() called

\* two patterns over the paths: one matching the first two positions, one
\* matching every position but the first
PatternLow == Pattern({i \in Files : i <= 2})
PatternHigh == Pattern({i \in Files : i >= 2})

\* root k is directory k
DistinctRoots == [k \in RootIdx |-> k]

\* every root is directory 1 (overlapping roots)
SameRoots == [k \in RootIdx |-> 1]

Trees == [Files -> ObjectKinds]

\* trees of readable regular files and non-regular objects
PlainTrees == [Files -> {"file", "dir"}]

\* <<accepts, rejects>> with patterns that compile
Filters ==
    {<<{PatternHigh}, {PatternLow}>>,
     <<{PatternLow, PatternHigh}, {}>>,
     <<{}, {PatternHigh}>>}

\* <<accepts, rejects>> with a pattern that does not compile
BadFilters == {<<{BadPattern}, {}>>, <<{}, {BadPattern}>>}

\* the Entry an earlier run stored for a file with content c, under bucket b
EarlierEntry(p, c, b) ==
    [path |-> p, hash |-> Sha256Hex(c), bucket |-> b, size |-> ByteCount(c),
     err |-> NoErr]

\* the table an earlier run in another bucket left: the row of the first file
\* of directory 1, whose content has changed since, and the row of its second
\* file, which has not changed
EarlierRows ==
    SetToBag({RowOf(EarlierEntry(<<1, 1>>, "older!", "earlier")),
              RowOf(EarlierEntry(<<1, 2>>, Content(2), "earlier"))})

InitRun ==
    /\ bucket = "default"
    /\ migrated = "none"
    /\ opc = "open"
    /\ cur = 1
    /\ ent = NoEntry
    /\ retErr = NoErr
    /\ rootStatus = [r \in RootIdx |-> "pending"]
    /\ done = [r \in RootIdx |-> "none"]
    /\ paths = [r \in RootIdx |-> "none"]
    /\ entries = [r \in RootIdx |-> "none"]
    /\ errs = <<>>
    /\ wpc = [r \in RootIdx |-> "none"]
    /\ wpos = 1
    /\ dpc = [w \in Workers |-> "none"]
    /\ dent = [w \in Workers |-> NoEntry]
    /\ wg = 0
    /\ watch = "none"
    /\ store = prior
    /\ openTx = 0
    /\ hist = HistInit

\* The runs: either revision without filters or migrations on every tree;
\* the filtering revision on the table an earlier run left, over overlapping
\* roots, and with filters on the trees without failures; the migration
\* directives and the patterns that do not compile on one tree.
Init ==
    /\ \/ /\ strict \in BOOLEAN
          /\ roots = DistinctRoots
          /\ up = FALSE /\ down = FALSE
          /\ accepts = {} /\ rejects = {}
          /\ tree \in Trees
          /\ parallelism \in 0..MaxParallelism
          /\ prior = EmptyBag
       \/ /\ strict = FALSE
          /\ roots = DistinctRoots
          /\ up = FALSE /\ down = FALSE
          /\ accepts = {} /\ rejects = {}
          /\ tree \in PlainTrees
          /\ parallelism \in 1..MaxParallelism
          /\ prior = EarlierRows
       \/ /\ strict = FALSE
          /\ roots = SameRoots
          /\ up = FALSE /\ down = FALSE
          /\ accepts = {} /\ rejects = {}
          /\ tree \in PlainTrees
          /\ parallelism \in 1..MaxParallelism
          /\ prior = EmptyBag
       \/ /\ strict = FALSE
          /\ roots = DistinctRoots
          /\ up = FALSE /\ down = FALSE
          /\ \E f \in Filters : accepts = f[1] /\ rejects = f[2]
          /\ tree \in PlainTrees
          /\ parallelism \in 0..MaxParallelism
          /\ prior = EmptyBag
       \/ /\ strict = FALSE
          /\ roots = DistinctRoots
          /\ up = FALSE /\ down = FALSE
          /\ \E f \in BadFilters : accepts = f[1] /\ rejects = f[2]
          /\ tree = [i \in Files |-> "file"]
          /\ parallelism = 1
          /\ prior = EmptyBag
       \/ /\ strict = TRUE
          /\ roots = DistinctRoots
          /\ up \in BOOLEAN /\ down \in BOOLEAN
          /\ up \/ down
          /\ accepts = {} /\ rejects = {}
          /\ tree = [i \in Files |-> "file"]
          /\ parallelism = 1
          /\ prior = EmptyBag
    /\ InitRun

(***************************************************************************)
(* Execute: setup                                                          *)
(***************************************************************************)

\* sql.Open (and, in the filtering revision, len(paths) == 0 and CREATE
\* TABLE IF NOT EXISTS): any failure returns before anything else is done
OpenDatabase ==
    /\ opc = "open"
    /\ \E ok \in BOOLEAN :
        IF (~strict /\ Len(roots) = 0) \/ ~ok
        THEN /\ opc' = "returned"
             /\ retErr' = IF ok THEN "no paths provided" ELSE "database"
        ELSE /\ opc' = IF strict THEN "migrate" ELSE "compile"
             /\ retErr' = retErr
    /\ UNCHANGED <<config, cur, ent, rootStatus, chans, walker, digesters,
                   watch, database, hist>>

\* variant: a pattern that does not compile is logged and left out
CompilePatternsLenient ==
    /\ opc = "compile"
    /\ opc' = "loop" /\ retErr' = retErr
    /\ UNCHANGED <<config, cur, ent, rootStatus, chans, walker, digesters,
                   watch, database, hist>>

\* regexp.Compile of every accept and reject pattern
CompilePatterns ==
    /\ opc = "compile"
    /\ IF CompileFails
       THEN opc' = "returned" /\ retErr' = "regexp"
       ELSE opc' = "loop" /\ retErr' = retErr
    /\ UNCHANGED <<config, cur, ent, rootStatus, chans, walker, digesters,
                   watch, database, hist>>

\* variant: the directives are read as "one of the two, not both"
MigrationRequestedExclusive == (up \/ down) /\ ~(up /\ down)

\* cmd.Up || cmd.Down && !(cmd.Up && cmd.Down)
MigrationRequested == up \/ (down /\ ~(up /\ down))

\* the calls of the migration step, in the order they are made
MigrationCalls == <<"driver", "new", "apply">>

\* if cmd.Up { migration.Up() } else if cmd.Down { migration.Down() }
MigrationCall == IF up THEN "up" ELSE IF down THEN "down" ELSE "none"

\* the strict revision's migration step: sqlite3.WithInstance,
\* migrate.NewWithDatabaseInstance and migration.Up() or migration.Down();
\* the first call that fails, if any, returns its error
Migrate ==
    /\ opc = "migrate"
    /\ IF MigrationRequested
       THEN \E failing \in 0..Len(MigrationCalls) :
              /\ hist' = [hist EXCEPT
                            !.called = IF failing \in {1, 2} THEN "none"
                                       ELSE MigrationCall]
              /\ IF failing = 0
                 THEN /\ migrated' = MigrationCall
                      /\ opc' = "loop" /\ retErr' = retErr
                 ELSE /\ migrated' = migrated
                      /\ opc' = "returned" /\ retErr' = "migration"
       ELSE /\ migrated' = migrated /\ hist' = hist
            /\ opc' = "loop" /\ retErr' = retErr
    /\ UNCHANGED <<config, cur, ent, rootStatus, chans, walker, digesters,
                   watch, store, openTx>>

\* variant: close(done) is not deferred, it runs as soon as done is made
StartRootNoDefer ==
    /\ opc = "loop"
    /\ opc' = "draining"
    /\ rootStatus' = [rootStatus EXCEPT ![cur] = "running"]
    /\ done' = [done EXCEPT ![cur] = "closed"]
    /\ paths' = [paths EXCEPT ![cur] = "open"]
    /\ entries' = [entries EXCEPT ![cur] = "open"]
    /\ errs' = <<>>
    /\ wpc' = [wpc EXCEPT ![cur] = "walking"]
    /\ wpos' = 1
    /\ dpc' = [w \in Workers |-> IF w <= parallelism THEN "ranging" ELSE "none"]
    /\ dent' = [w \in Workers |-> NoEntry]
    /\ wg' = parallelism
    /\ watch' = "waiting"
    /\ hist' = [hist EXCEPT !.closed.done[cur] = @ + 1]
    /\ UNCHANGED <<config, cur, ent, retErr, database>>

\* the head of the per-root function: make entries and done, call visit
\* (makes paths and errs, starts the walker), start cmd.Parallelism
\* digesters and the watcher
StartRoot ==
    /\ opc = "loop"
    /\ opc' = "draining"
    /\ rootStatus' = [rootStatus EXCEPT ![cur] = "running"]
    /\ done' = [done EXCEPT ![cur] = "open"]
    /\ paths' = [paths EXCEPT ![cur] = "open"]
    /\ entries' = [entries EXCEPT ![cur] = "open"]
    /\ errs' = <<>>
    /\ wpc' = [wpc EXCEPT ![cur] = "walking"]
    /\ wpos' = 1
    /\ dpc' = [w \in Workers |-> IF w <= parallelism THEN "ranging" ELSE "none"]
    /\ dent' = [w \in Workers |-> NoEntry]
    /\ wg' = parallelism
    /\ watch' = "waiting"
    /\ UNCHANGED <<config, cur, ent, retErr, database, hist>>

(***************************************************************************)
(* visit: the walker goroutine                                             *)
(***************************************************************************)

ErrsCap == 1

AtObject == wpc[cur] = "walking" /\ wpos <= MaxFiles

\* variant: the callback logs the error and returns nil, the walk goes on
WalkErrorSkip ==
    /\ AtObject
    /\ tree[wpos] = "bad"
    /\ wpos' = wpos + 1
    /\ UNCHANGED <<config, opc, cur, ent, retErr, rootStatus, chans, wpc,
                   errs, digesters, watch, database, hist>>

\* the callback is called with err != nil and returns it; Walk returns it and
\* it is sent on errs
WalkError ==
    /\ AtObject
    /\ tree[wpos] = "bad"
    /\ Len(errs) < ErrsCap
    /\ errs' = Append(errs, EnumErr)
    /\ wpc' = [wpc EXCEPT ![cur] = "closing"]
    /\ hist' = [hist EXCEPT !.result[cur] = <<EnumErr>>]
    /\ UNCHANGED <<config, opc, cur, ent, retErr, rootStatus, chans, wpos,
                   digesters, watch, database>>

\* the callback returns nil without sending: not a regular file, or filtered
WalkSkip ==
    /\ AtObject
    /\ tree[wpos] # "bad"
    /\ ~IsRegular(wpos) \/ ~PassesFilter(wpos)
    /\ wpos' = wpos + 1
    /\ UNCHANGED <<config, opc, cur, ent, retErr, rootStatus, chans, wpc,
                   errs, digesters, watch, database, hist>>

\* variant: a path sent on paths is received by every digester that is
\* ranging over it
WalkSendBroadcast(w) ==
    /\ AtObject
    /\ IsRegular(wpos) /\ PassesFilter(wpos)
    /\ dpc[w] = "ranging"
    /\ wpos' = wpos + 1
    /\ dpc' = [v \in Workers |-> IF dpc[v] = "ranging" THEN "sending" ELSE dpc[v]]
    /\ dent' = [v \in Workers |->
                   IF dpc[v] = "ranging" THEN DigestFile(<<roots[cur], wpos>>) ELSE dent[v]]
    /\ hist' = [hist EXCEPT
                  !.emitted = Bump(@, cur, wpos),
                  !.delivered[cur][wpos] =
                      @ + Cardinality({v \in Workers : dpc[v] = "ranging"}),
                  !.afterCancel = IF done[cur] = "closed" THEN @ + 1 ELSE @]
    /\ UNCHANGED <<config, opc, cur, ent, retErr, rootStatus, chans, wpc,
                   errs, wg, watch, database>>

\* variant: the digester writes the row of the file it has hashed itself
WalkSendStore(w) ==
    /\ AtObject
    /\ IsRegular(wpos) /\ PassesFilter(wpos)
    /\ dpc[w] = "ranging"
    /\ wpos' = wpos + 1
    /\ dpc' = [dpc EXCEPT ![w] = "sending"]
    /\ dent' = [dent EXCEPT ![w] = DigestFile(<<roots[cur], wpos>>)]
    /\ store' = IF DigestFile(<<roots[cur], wpos>>).err = NoErr
                THEN Upsert(store, RowOf(DigestFile(<<roots[cur], wpos>>)))
                ELSE store
    /\ hist' = [hist EXCEPT
                  !.emitted = Bump(@, cur, wpos),
                  !.delivered = Bump(@, cur, wpos),
                  !.afterCancel = IF done[cur] = "closed" THEN @ + 1 ELSE @]
    /\ UNCHANGED <<config, opc, cur, ent, retErr, rootStatus, chans, wpc,
                   errs, wg, watch, openTx, migrated>>

\* select case paths <- path, taken by digester w in its range over paths;
\* the digester then opens and hashes the file
WalkSend(w) ==
    /\ AtObject
    /\ IsRegular(wpos) /\ PassesFilter(wpos)
    /\ dpc[w] = "ranging"
    /\ wpos' = wpos + 1
    /\ dpc' = [dpc EXCEPT ![w] = "sending"]
    /\ dent' = [dent EXCEPT ![w] = DigestFile(<<roots[cur], wpos>>)]
    /\ hist' = [hist EXCEPT
                  !.emitted = Bump(@, cur, wpos),
                  !.delivered = Bump(@, cur, wpos),
                  !.afterCancel = IF done[cur] = "closed" THEN @ + 1 ELSE @]
    /\ UNCHANGED <<config, opc, cur, ent, retErr, rootStatus, chans, wpc,
                   errs, wg, watch, database>>

\* variant: errs has no buffer, the result is handed over only when the
\* calling goroutine is at <-errs
WalkCancelUnbuffered ==
    /\ AtObject
    /\ IsRegular(wpos) /\ PassesFilter(wpos)
    /\ done[cur] = "closed"
    /\ opc = "errs"
    /\ Len(errs) < ErrsCap
    /\ errs' = Append(errs, WalkCanceled)
    /\ wpc' = [wpc EXCEPT ![cur] = "closing"]
    /\ hist' = [hist EXCEPT !.result[cur] = <<WalkCanceled>>]
    /\ UNCHANGED <<config, opc, cur, ent, retErr, rootStatus, chans, wpos,
                   digesters, watch, database>>

\* variant: on <-done the callback ends the walk without an error
WalkCancelNil ==
    /\ AtObject
    /\ IsRegular(wpos) /\ PassesFilter(wpos)
    /\ done[cur] = "closed"
    /\ Len(errs) < ErrsCap
    /\ errs' = Append(errs, NoErr)
    /\ wpc' = [wpc EXCEPT ![cur] = "closing"]
    /\ hist' = [hist EXCEPT !.result[cur] = <<NoErr>>]
    /\ UNCHANGED <<config, opc, cur, ent, retErr, rootStatus, chans, wpos,
                   digesters, watch, database>>

\* select case <-done: the callback returns "walk canceled"
WalkCancel ==
    /\ AtObject
    /\ IsRegular(wpos) /\ PassesFilter(wpos)
    /\ done[cur] = "closed"
    /\ Len(errs) < ErrsCap
    /\ errs' = Append(errs, WalkCanceled)
    /\ wpc' = [wpc EXCEPT ![cur] = "closing"]
    /\ hist' = [hist EXCEPT !.result[cur] = <<WalkCanceled>>]
    /\ UNCHANGED <<config, opc, cur, ent, retErr, rootStatus, chans, wpos,
                   digesters, watch, database>>

\* variant: the path stream is closed when the tree is exhausted, and Walk's
\* result is sent on errs after the close
WalkReturnCloseFirst ==
    /\ wpc[cur] = "walking"
    /\ wpos > MaxFiles
    /\ IF paths[cur] = "open"
       THEN /\ paths' = [paths EXCEPT ![cur] = "closed"]
            /\ hist' = [hist EXCEPT !.closed.paths[cur] = @ + 1]
            /\ UNCHANGED <<errs, wpc>>
       ELSE /\ Len(errs) < ErrsCap
            /\ errs' = Append(errs, NoErr)
            /\ wpc' = [wpc EXCEPT ![cur] = "exited"]
            /\ hist' = [hist EXCEPT !.result[cur] = <<NoErr>>]
            /\ UNCHANGED paths
    /\ UNCHANGED <<config, opc, cur, ent, retErr, rootStatus, done, entries,
                   wpos, digesters, watch, database>>

\* the tree is exhausted: Walk returns nil, which is sent on errs
WalkReturn ==
    /\ wpc[cur] = "walking"
    /\ wpos > MaxFiles
    /\ Len(errs) < ErrsCap
    /\ errs' = Append(errs, NoErr)
    /\ wpc' = [wpc EXCEPT ![cur] = "closing"]
    /\ hist' = [hist EXCEPT !.result[cur] = <<NoErr>>]
    /\ UNCHANGED <<config, opc, cur, ent, retErr, rootStatus, chans, wpos,
                   digesters, watch, database>>

\* variant: paths is closed while Walk is still running (close(paths) not
\* deferred to the end of the goroutine)
WalkCloseEarly(r) ==
    /\ wpc[r] \in {"walking", "closing"}
    /\ paths[r] = "open"
    /\ paths' = [paths EXCEPT ![r] = "closed"]
    /\ wpc' = [wpc EXCEPT ![r] = IF @ = "closing" THEN "exited" ELSE @]
    /\ hist' = [hist EXCEPT !.closed.paths[r] = @ + 1]
    /\ UNCHANGED <<config, opc, cur, ent, retErr, rootStatus, done, entries,
                   wpos, errs, digesters, watch, database>>

\* defer close(paths), run by the walker of root r once its result is on errs
WalkClose(r) ==
    /\ wpc[r] = "closing"
    /\ paths' = [paths EXCEPT ![r] = "closed"]
    /\ wpc' = [wpc EXCEPT ![r] = "exited"]
    /\ hist' = [hist EXCEPT !.closed.paths[r] = @ + 1]
    /\ UNCHANGED <<config, opc, cur, ent, retErr, rootStatus, done, entries,
                   wpos, errs, digesters, watch, database>>

(***************************************************************************)
(* digest: the digester goroutines, and the watcher                        *)
(***************************************************************************)

\* variant: the digester goroutine returns without wg.Done()
DigestDoneNoWg(w) ==
    /\ dpc[w] = "ranging"
    /\ paths[cur] = "closed"
    /\ dpc' = [dpc EXCEPT ![w] = "exited"]
    /\ UNCHANGED <<config, opc, cur, ent, retErr, rootStatus, chans, walker,
                   dent, wg, watch, database, hist>>

\* range paths ends on the closed channel; digest returns; wg.Done()
DigestDone(w) ==
    /\ dpc[w] = "ranging"
    /\ paths[cur] = "closed"
    /\ dpc' = [dpc EXCEPT ![w] = "exited"]
    /\ wg' = wg - 1
    /\ UNCHANGED <<config, opc, cur, ent, retErr, rootStatus, chans, walker,
                   dent, watch, database, hist>>

\* variant: on <-done the digester drops the entry and goes on with the
\* next path instead of returning
DigestCancelContinue(w) ==
    /\ dpc[w] = "sending"
    /\ done[cur] = "closed"
    /\ dpc' = [dpc EXCEPT ![w] = "ranging"]
    /\ dent' = [dent EXCEPT ![w] = NoEntry]
    /\ hist' = [hist EXCEPT !.abandoned[w] = @ + 1,
                             !.dropped = Bump(@, cur, dent[w].path[2])]
    /\ UNCHANGED <<config, opc, cur, ent, retErr, rootStatus, chans, walker,
                   wg, watch, database>>

\* variant: the select drops the entry whenever no receiver is there (a
\* default case), and the digester goes on with the next path
DigestDropNoReceiver(w) ==
    /\ dpc[w] = "sending"
    /\ dpc' = [dpc EXCEPT ![w] = "ranging"]
    /\ dent' = [dent EXCEPT ![w] = NoEntry]
    /\ hist' = [hist EXCEPT !.abandoned[w] = @ + 1,
                             !.dropped = Bump(@, cur, dent[w].path[2])]
    /\ UNCHANGED <<config, opc, cur, ent, retErr, rootStatus, chans, walker,
                   wg, watch, database>>

\* select case <-done: digest returns without sending; wg.Done()
DigestCancel(w) ==
    /\ dpc[w] = "sending"
    /\ done[cur] = "closed"
    /\ dpc' = [dpc EXCEPT ![w] = "exited"]
    /\ dent' = [dent EXCEPT ![w] = NoEntry]
    /\ wg' = wg - 1
    /\ hist' = [hist EXCEPT !.abandoned[w] = @ + 1,
                             !.dropped = Bump(@, cur, dent[w].path[2])]
    /\ UNCHANGED <<config, opc, cur, ent, retErr, rootStatus, chans, walker,
                   watch, database>>

\* variant: the watcher closes entries without waiting for the digesters
WatcherCloseEarly ==
    /\ watch = "waiting"
    /\ entries' = [entries EXCEPT ![cur] = "closed"]
    /\ watch' = "exited"
    /\ hist' = [hist EXCEPT !.closed.entries[cur] = @ + 1]
    /\ UNCHANGED <<config, opc, cur, ent, retErr, rootStatus, done, paths,
                   walker, digesters, database>>

\* variant: the watcher closes entries as soon as one digester has finished
WatcherCloseAfterFirst ==
    /\ watch = "waiting"
    /\ wg < parallelism \/ wg = 0
    /\ entries' = [entries EXCEPT ![cur] = "closed"]
    /\ watch' = "exited"
    /\ hist' = [hist EXCEPT !.closed.entries[cur] = @ + 1]
    /\ UNCHANGED <<config, opc, cur, ent, retErr, rootStatus, done, paths,
                   walker, digesters, database>>

\* wg.Wait() returns; close(entries)
WatcherClose ==
    /\ watch = "waiting"
    /\ wg = 0
    /\ entries' = [entries EXCEPT ![cur] = "closed"]
    /\ watch' = "exited"
    /\ hist' = [hist EXCEPT !.closed.entries[cur] = @ + 1]
    /\ UNCHANGED <<config, opc, cur, ent, retErr, rootStatus, done, paths,
                   walker, digesters, database>>

(***************************************************************************)
(* Execute: the drain loop of the filtering revision                       *)
(***************************************************************************)

\* variant: the drain loop returns the error of an entry, as the strict
\* revision does
RecvEntryFatal(w) ==
    /\ ~strict
    /\ opc = "draining"
    /\ entries[cur] = "open"
    /\ dpc[w] = "sending"
    /\ dpc' = [dpc EXCEPT ![w] = "ranging"]
    /\ dent' = [dent EXCEPT ![w] = NoEntry]
    /\ hist' = [hist EXCEPT
                  !.received = Bump(@, cur, dent[w].path[2]),
                  !.closed.done[cur] = IF dent[w].err # NoErr THEN @ + 1 ELSE @]
    /\ IF dent[w].err # NoErr
       THEN /\ opc' = "returned"
            /\ ent' = ent
            /\ retErr' = dent[w].err
            /\ rootStatus' = [rootStatus EXCEPT ![cur] = "failed"]
            /\ done' = [done EXCEPT ![cur] = "closed"]
       ELSE /\ opc' = "begin"
            /\ ent' = dent[w]
            /\ retErr' = retErr
            /\ rootStatus' = rootStatus
            /\ done' = done
    /\ UNCHANGED <<config, cur, paths, entries, walker, wg, watch, database>>

\* variant: the drain loop stores every entry, without looking at e.err
RecvEntryUnchecked(w) ==
    /\ ~strict
    /\ opc = "draining"
    /\ entries[cur] = "open"
    /\ dpc[w] = "sending"
    /\ dpc' = [dpc EXCEPT ![w] = "ranging"]
    /\ dent' = [dent EXCEPT ![w] = NoEntry]
    /\ opc' = "begin"
    /\ ent' = dent[w]
    /\ hist' = [hist EXCEPT !.received = Bump(@, cur, dent[w].path[2])]
    /\ UNCHANGED <<config, cur, retErr, rootStatus, chans, walker, wg, watch,
                   database>>

\* for e := range entries, with digester w's select case c <- entry: an
\* entry with an error is logged and skipped, another goes to the store
RecvEntry(w) ==
    /\ ~strict
    /\ opc = "draining"
    /\ entries[cur] = "open"
    /\ dpc[w] = "sending"
    /\ dpc' = [dpc EXCEPT ![w] = "ranging"]
    /\ dent' = [dent EXCEPT ![w] = NoEntry]
    /\ IF dent[w].err # NoErr
       THEN /\ opc' = "draining"
            /\ ent' = ent
            /\ hist' = [hist EXCEPT
                          !.received = Bump(@, cur, dent[w].path[2]),
                          !.digestLog[cur] = @ \cup {dent[w].path[2]}]
       ELSE /\ opc' = "begin"
            /\ ent' = dent[w]
            /\ hist' = [hist EXCEPT !.received = Bump(@, cur, dent[w].path[2])]
    /\ UNCHANGED <<config, cur, retErr, rootStatus, chans, walker, wg, watch,
                   database>>

\* variant: the entry whose transaction failed is tried again
StoreFailedRetry ==
    /\ opc' = "begin"
    /\ ent' = ent
    /\ hist' = [hist EXCEPT !.persistLog[cur] = @ \cup {ent.path[2]}]

\* the entry's function returned err: "error storing entry" is logged and the
\* loop goes on
StoreFailed ==
    /\ opc' = "draining"
    /\ ent' = NoEntry
    /\ hist' = [hist EXCEPT !.persistLog[cur] = @ \cup {ent.path[2]}]

\* transaction failures logged so far
Faults == LET Sum[r \in 0..MaxRoots] ==
                  IF r = 0 THEN 0 ELSE Sum[r - 1] + Cardinality(hist.persistLog[r])
          IN  Sum[MaxRoots]

\* a step of a transaction succeeds or fails; at most MaxFaults failures are
\* injected in a run
TxOutcomes == IF Faults < MaxFaults THEN BOOLEAN ELSE {TRUE}

\* variant: a failure of db.Begin ends the per-root function with the error
TxBeginFatal ==
    /\ opc = "begin"
    /\ \E ok \in TxOutcomes :
        IF ok
        THEN /\ opc' = "prepare"
             /\ ent' = ent
             /\ openTx' = openTx + 1
             /\ hist' = [hist EXCEPT !.begun = Bump(@, cur, ent.path[2])]
             /\ UNCHANGED <<retErr, rootStatus, done>>
        ELSE /\ opc' = "returned"
             /\ ent' = NoEntry
             /\ openTx' = openTx
             /\ retErr' = "begin failed"
             /\ rootStatus' = [rootStatus EXCEPT ![cur] = "failed"]
             /\ done' = [done EXCEPT ![cur] = "closed"]
             /\ hist' = [hist EXCEPT
                           !.begun = Bump(@, cur, ent.path[2]),
                           !.persistLog[cur] = @ \cup {ent.path[2]},
                           !.closed.done[cur] = @ + 1]
    /\ UNCHANGED <<config, cur, paths, entries, walker, digesters,
                   watch, store, migrated>>

\* tx, err := db.Begin()
TxBegin ==
    /\ opc = "begin"
    /\ \E ok \in TxOutcomes :
        IF ok
        THEN /\ opc' = "prepare"
             /\ ent' = ent
             /\ openTx' = openTx + 1
             /\ hist' = [hist EXCEPT !.begun = Bump(@, cur, ent.path[2])]
        ELSE /\ opc' = "draining"
             /\ ent' = NoEntry
             /\ openTx' = openTx
             /\ hist' = [hist EXCEPT
                           !.begun = Bump(@, cur, ent.path[2]),
                           !.persistLog[cur] = @ \cup {ent.path[2]}]
    /\ UNCHANGED <<config, cur, retErr, rootStatus, chans, walker, digesters,
                   watch, store, migrated>>

\* stmt, err := tx.Prepare(...): on failure the function returns, tx is
\* neither committed nor rolled back
TxPrepare ==
    /\ opc = "prepare"
    /\ \E ok \in TxOutcomes :
        IF ok
        THEN opc' = "exec" /\ ent' = ent /\ hist' = hist
        ELSE StoreFailed
    /\ UNCHANGED <<config, cur, retErr, rootStatus, chans, walker, digesters,
                   watch, database>>

\* stmt.Exec(...): on failure the function returns, tx is neither committed
\* nor rolled back
TxExec ==
    /\ opc = "exec"
    /\ \E ok \in TxOutcomes :
        IF ok
        THEN opc' = "commit" /\ ent' = ent /\ hist' = hist
        ELSE StoreFailed
    /\ UNCHANGED <<config, cur, retErr, rootStatus, chans, walker, digesters,
                   watch, database>>

\* tx.Commit(): the transaction is over whether or not it returns an error;
\* the row is in the table only if it returns nil
TxCommit ==
    /\ opc = "commit"
    /\ openTx' = openTx - 1
    /\ \E ok \in TxOutcomes :
        IF ok
        THEN /\ store' = Upsert(store, RowOf(ent))
             /\ opc' = "draining" /\ ent' = NoEntry /\ hist' = hist
        ELSE /\ store' = store
             /\ StoreFailed
    /\ UNCHANGED <<config, cur, retErr, rootStatus, chans, walker, digesters,
                   watch, migrated>>

(***************************************************************************)
(* Execute: the drain loop of the strict revision                          *)
(***************************************************************************)

\* variant: the return on an entry's error leaves done open (close(done) not
\* deferred)
StrictRecvNoClose(w) ==
    /\ strict
    /\ opc = "draining"
    /\ entries[cur] = "open"
    /\ dpc[w] = "sending"
    /\ dpc' = [dpc EXCEPT ![w] = "ranging"]
    /\ dent' = [dent EXCEPT ![w] = NoEntry]
    /\ hist' = [hist EXCEPT !.received = Bump(@, cur, dent[w].path[2])]
    /\ IF dent[w].err # NoErr
       THEN /\ opc' = "returned"
            /\ retErr' = dent[w].err
            /\ rootStatus' = [rootStatus EXCEPT ![cur] = "failed"]
       ELSE /\ opc' = "draining"
            /\ retErr' = retErr
            /\ rootStatus' = rootStatus
    /\ UNCHANGED <<config, cur, ent, chans, walker, wg, watch, database>>

\* for r := range entries { if r.err != nil { return r.err } }: the first
\* entry with an error ends the per-root function (defer close(done)) and
\* Execute returns it; other entries are dropped
StrictRecv(w) ==
    /\ strict
    /\ opc = "draining"
    /\ entries[cur] = "open"
    /\ dpc[w] = "sending"
    /\ dpc' = [dpc EXCEPT ![w] = "ranging"]
    /\ dent' = [dent EXCEPT ![w] = NoEntry]
    /\ hist' = [hist EXCEPT
                  !.received = Bump(@, cur, dent[w].path[2]),
                  !.closed.done[cur] = IF dent[w].err # NoErr THEN @ + 1 ELSE @]
    /\ IF dent[w].err # NoErr
       THEN /\ opc' = "returned"
            /\ retErr' = dent[w].err
            /\ rootStatus' = [rootStatus EXCEPT ![cur] = "failed"]
            /\ done' = [done EXCEPT ![cur] = "closed"]
       ELSE /\ opc' = "draining"
            /\ retErr' = retErr
            /\ rootStatus' = rootStatus
            /\ done' = done
    /\ UNCHANGED <<config, cur, ent, paths, entries, walker, wg, watch,
                   database>>

\* variant: the loop goes to the next root as soon as the entry stream is
\* closed, without waiting for the result of the walk
DrainEndNextRoot ==
    /\ opc = "draining"
    /\ entries[cur] = "closed"
    /\ IF cur < Len(roots)
       THEN opc' = "loop" /\ cur' = cur + 1
       ELSE opc' = "errs" /\ cur' = cur
    /\ UNCHANGED <<config, ent, retErr, rootStatus, chans, walker,
                   digesters, watch, database, hist>>

\* variant: done is closed as soon as the drain loop ends, before the walk's
\* result is read
DrainEndCancel ==
    /\ opc = "draining"
    /\ entries[cur] = "closed"
    /\ opc' = "errs"
    /\ done' = [done EXCEPT ![cur] = "closed"]
    /\ hist' = [hist EXCEPT !.closed.done[cur] = @ + 1]
    /\ UNCHANGED <<config, cur, ent, retErr, rootStatus, paths, entries,
                   walker, digesters, watch, database>>

\* range entries ends on the closed channel
DrainEnd ==
    /\ opc = "draining"
    /\ entries[cur] = "closed"
    /\ opc' = "errs"
    /\ UNCHANGED <<config, cur, ent, retErr, rootStatus, chans, walker,
                   digesters, watch, database, hist>>

\* variant: a walk error is logged and the loop goes on to the next root
ReadErrsContinue ==
    /\ opc = "errs"
    /\ Len(errs) > 0
    /\ errs' = Tail(errs)
    /\ done' = [done EXCEPT ![cur] = "closed"]
    /\ rootStatus' = [rootStatus EXCEPT
                         ![cur] = IF Head(errs) # NoErr THEN "failed" ELSE "done"]
    /\ retErr' = retErr
    /\ IF cur < Len(roots)
       THEN opc' = "loop" /\ cur' = cur + 1
       ELSE opc' = "returned" /\ cur' = cur
    /\ hist' = [hist EXCEPT !.closed.done[cur] = @ + 1]
    /\ UNCHANGED <<config, ent, paths, entries, wpc, wpos, digesters, watch,
                   database>>

\* variant: the walk's result is looked at as soon as it is there, before the
\* entry stream is closed
ReadErrsBeforeDrain ==
    /\ opc \in {"draining", "errs"}
    /\ Len(errs) > 0
    /\ errs' = Tail(errs)
    /\ done' = [done EXCEPT ![cur] = "closed"]
    /\ IF Head(errs) # NoErr
       THEN /\ rootStatus' = [rootStatus EXCEPT ![cur] = "failed"]
            /\ retErr' = Head(errs)
            /\ opc' = "returned"
            /\ cur' = cur
       ELSE /\ rootStatus' = [rootStatus EXCEPT ![cur] = "done"]
            /\ retErr' = retErr
            /\ IF cur < Len(roots)
               THEN opc' = "loop" /\ cur' = cur + 1
               ELSE opc' = "returned" /\ cur' = cur
    /\ hist' = [hist EXCEPT !.closed.done[cur] = @ + 1]
    /\ UNCHANGED <<config, ent, paths, entries, wpc, wpos, digesters, watch,
                   database>>

\* err := <-errs, the per-root function returns (defer close(done)), and the
\* loop over the roots either returns the error or goes to the next root
ReadErrs ==
    /\ opc = "errs"
    /\ Len(errs) > 0
    /\ errs' = Tail(errs)
    /\ done' = [done EXCEPT ![cur] = "closed"]
    /\ IF Head(errs) # NoErr
       THEN /\ rootStatus' = [rootStatus EXCEPT ![cur] = "failed"]
            /\ retErr' = Head(errs)
            /\ opc' = "returned"
            /\ cur' = cur
       ELSE /\ rootStatus' = [rootStatus EXCEPT ![cur] = "done"]
            /\ retErr' = retErr
            /\ IF cur < Len(roots)
               THEN opc' = "loop" /\ cur' = cur + 1
               ELSE opc' = "returned" /\ cur' = cur
    /\ hist' = [hist EXCEPT !.closed.done[cur] = @ + 1]
    /\ UNCHANGED <<config, ent, paths, entries, wpc, wpos, digesters, watch,
                   database>>

Pipeline ==
    \/ WalkError
    \/ WalkSkip
    \/ \E w \in Workers : WalkSend(w)
    \/ WalkCancel
    \/ WalkReturn
    \/ \E r \in RootIdx : WalkClose(r)
    \/ \E w \in Workers : DigestDone(w)
    \/ \E w \in Workers : DigestCancel(w)
    \/ WatcherClose

Next ==
    \/ OpenDatabase
    \/ CompilePatterns
    \/ Migrate
    \/ StartRoot
    \/ \E w \in Workers : RecvEntry(w)
    \/ \E w \in Workers : StrictRecv(w)
    \/ TxBegin
    \/ TxPrepare
    \/ TxExec
    \/ TxCommit
    \/ DrainEnd
    \/ ReadErrs
    \/ Pipeline

Spec == Init /\ [][Next]_vars

\* the Go scheduler runs every goroutine that can take a step: some enabled
\* step is eventually taken
FairSpec == Spec /\ WF_vars(Next)

(***************************************************************************)
(* Properties                                                              *)
(***************************************************************************)

TxStates == {"begin", "prepare", "exec", "commit"}

\* positions the walk of a root reaches: none after an enumeration error
Enumerated(i) == \A j \in 1..i : tree[j] # "bad"

\* the files of a root that visit's filter lets through
AdmittedFiles == {i \in Files : Enumerated(i) /\ IsRegular(i) /\ PassesFilter(i)}

WalkFails == \E i \in Files : tree[i] = "bad"

\* the drain loop of root r ended on the closed entry stream
Drained(r) ==
    \/ cur = r /\ opc = "errs"
    \/ rootStatus[r] = "done"
    \/ rootStatus[r] = "failed" /\ retErr = EnumErr

\* the rows of the table
Rows == BagToSet(store)

HasRow(r, i) == \E row \in Rows : row.path = <<roots[r], i>>

\* C1: absent cancellation (the root's drain loop ran until the entry stream
\* was closed), with P >= 1, the drain loop has received exactly one Entry
\* for every admitted file of the root and none for any other path; at no
\* time has it received two Entries for one path.
C1_ExactlyOneEntryPerPath ==
    \A r \in RootIdx :
        /\ \A i \in Files : hist.received[r][i] <= 1
        /\ (parallelism >= 1 /\ Drained(r)) =>
              \A i \in Files :
                  hist.received[r][i] = IF i \in AdmittedFiles THEN 1 ELSE 0

C1_Witness ==
    /\ parallelism = 2
    /\ rootStatus[1] = "done"
    /\ AdmittedFiles = Files
    /\ \A i \in Files : hist.received[1][i] = 1

\* the walk of the current root has gone past position i
WalkedPast(i) == rootStatus[cur] # "pending" /\ i < wpos

\* the filter as section 4.1 states it
SpecAdmits(i) ==
    /\ accepts = {} \/ \E a \in accepts : MatchString(a, i)
    /\ ~ \E r \in rejects : MatchString(r, i)

\* C2 as stated: a regular file the walk has gone past was emitted on the
\* path stream if and only if the accept set is empty or one accept pattern
\* matches its path, and no reject pattern matches it.
C2_AdmittedIffAnyAccept ==
    \A i \in Files :
        (WalkedPast(i) /\ IsRegular(i)) =>
            (hist.emitted[cur][i] = 1 <=> SpecAdmits(i))

\* C2: a regular file the walk has gone past was emitted on the path stream
\* (once) if and only if every accept pattern matches its path and no reject
\* pattern matches it; it was not emitted otherwise.
C2_AdmittedIffEveryAccept ==
    \A i \in Files :
        (WalkedPast(i) /\ IsRegular(i)) =>
            /\ hist.emitted[cur][i] <= 1
            /\ hist.emitted[cur][i] = 1 <=>
                  /\ \A a \in accepts : i \in a.matches
                  /\ \A r \in rejects : i \notin r.matches

\* with two accept patterns, the walk skipped a file that matches one of them
\* and emitted a file that matches both
C2_Witness ==
    /\ accepts = {PatternLow, PatternHigh} /\ rejects = {}
    /\ IsRegular(1) /\ IsRegular(2)
    /\ wpos > 2
    /\ hist.emitted[1][1] = 0 /\ hist.emitted[1][2] = 1

\* C3: a path matching a reject pattern is never emitted, and with a
\* non-empty accept set a path matching no accept pattern is never emitted.
C3_FilterPrecedence ==
    \A r \in RootIdx : \A i \in Files :
        hist.emitted[r][i] > 0 =>
            /\ ~ \E re \in rejects : MatchString(re, i)
            /\ accepts # {} => \E a \in accepts : MatchString(a, i)

\* the walk went past a file that matches an accept and a reject pattern and
\* past one that matches no accept pattern, and a third file was emitted
C3_Witness ==
    /\ accepts = {PatternHigh} /\ rejects = {PatternLow}
    /\ \A i \in Files : tree[i] = "file"
    /\ wpos > MaxFiles
    /\ hist.emitted[1][1] = 0 /\ hist.emitted[1][2] = 0
    /\ hist.emitted[1][MaxFiles] = 1

StepStored == opc = "commit" /\ BagIn(RowOf(ent), store')

\* C5: a failure of db.Begin, tx.Prepare, stmt.Exec or tx.Commit for an Entry
\* is logged, leaves the table as it was and takes the drain loop back to
\* receiving, the root still running and nothing returned or closed; no Entry
\* has db.Begin called for it twice; and whether a finished root is done
\* depends on the walk alone, not on the failures logged.
C5_Step ==
    /\ \A r \in RootIdx : \A i \in Files : hist'.begun[r][i] <= 1
    /\ (opc \in TxStates /\ opc' \notin TxStates) =>
          /\ opc' = "draining"
          /\ rootStatus' = rootStatus /\ retErr' = retErr
          /\ done' = done /\ entries' = entries
          /\ StepStored \/ ent.path[2] \in hist'.persistLog[cur]
    /\ hist'.persistLog # hist.persistLog =>
          /\ opc \in TxStates /\ opc' = "draining"
          /\ store' = store
    /\ \A r \in RootIdx :
          (~strict /\ parallelism >= 1 /\ rootStatus'[r] \in {"done", "failed"}) =>
              (rootStatus'[r] = "done" <=> ~WalkFails)

C5_PersistFailureSkipsEntry == [][C5_Step]_vars

\* with one digester, the transaction of the first file failed, the row of the
\* second file was stored after it, and the root ended done
C5_Witness ==
    /\ ~strict /\ parallelism = 1
    /\ rootStatus[1] = "done"
    /\ hist.persistLog[1] = {1}
    /\ HasRow(1, 2)

\* C6 as stated: at most one transaction begun by the pipeline is open
\* (neither committed nor rolled back) at any time.
C6_AtMostOneOpenTx == openTx <= 1

\* C7: an Entry carrying a digest error never has db.Begin called for it,
\* is never the Entry a transaction step works on, and the table never holds
\* a row for the path of a file whose digest fails.
C7_ErrorEntryNeverPersisted ==
    /\ \A r \in RootIdx : \A i \in Files :
          tree[i] = "unreadable" => hist.begun[r][i] = 0
    /\ \A row \in Rows : tree[row.path[2]] # "unreadable"
    /\ opc \in TxStates => ent.err = NoErr

\* an Entry with an error was received and logged, another one was stored
C7_Witness ==
    /\ ~strict
    /\ hist.digestLog[1] # {}
    /\ Rows # {}
    /\ opc = "draining"

\* C8: with P >= 1, under fair scheduling a root that was started ends done
\* or failed, whatever digest, persist and walk failures happen.
C8_RootEventuallyEnds ==
    \A r \in RootIdx :
        (parallelism >= 1 /\ rootStatus[r] = "running")
            ~> (rootStatus[r] \in {"done", "failed"})

\* a root with a digest failure, a persist failure and a walk error has ended
C8_Witness ==
    /\ ~strict /\ parallelism >= 1
    /\ rootStatus[1] = "failed"
    /\ hist.digestLog[1] # {}
    /\ hist.persistLog[1] # {}

\* the strict drain loop returned on an Entry error: done was closed while
\* the pipeline of the root was running
EarlyReturn == strict /\ opc = "returned" /\ retErr = OpenErr

AllStopped ==
    /\ wpc[cur] = "exited"
    /\ watch = "exited"
    /\ \A w \in Workers : dpc[w] \in {"none", "exited"}

C10_SequentialShortCircuit ==
    \A r \in RootIdx :
        /\ rootStatus[r] = "done" => ~WalkFails
        /\ rootStatus[r] = "failed" =>
              /\ opc = "returned"
              /\ retErr # NoErr
              /\ ~strict => retErr = EnumErr
              /\ \A q \in RootIdx : q > r =>
                    /\ rootStatus[q] = "pending"
                    /\ done[q] = "none" /\ paths[q] = "none" /\ entries[q] = "none"
                    /\ \A i \in Files :
                          /\ hist.emitted[q][i] = 0
                          /\ hist.received[q][i] = 0
                          /\ hist.begun[q][i] = 0

\* the first of two roots failed on a walk error after one of its files was
\* stored
C10_Witness ==
    /\ ~strict
    /\ Len(roots) >= 2
    /\ rootStatus[1] = "failed"
    /\ retErr = EnumErr
    /\ Rows # {}

\* a goroutine or a channel of root r exists
Started(r) ==
    \/ wpc[r] # "none"
    \/ done[r] # "none" \/ paths[r] # "none" \/ entries[r] # "none"
    \/ \E i \in Files : hist.emitted[r][i] > 0 \/ hist.received[r][i] > 0

C11_Inv ==
    \A r \in RootIdx :
        /\ Started(r) => rootStatus[r] # "pending"
        /\ rootStatus[r] # "pending" =>
              \A q \in 1..(r - 1) : rootStatus[q] \in {"done", "failed"}
        /\ rootStatus[r] = "running" => r = cur
        /\ \A q \in RootIdx \ {r} :
              /\ ~(done[r] = "open" /\ done[q] = "open")
              /\ ~(entries[r] = "open" /\ entries[q] = "open")

C11_Step ==
    \A r \in RootIdx :
        /\ (done'[r] = "open" /\ done[r] # "open") =>
              done[r] = "none" /\ rootStatus[r] = "pending" /\ rootStatus'[r] = "running"
        /\ (entries'[r] = "open" /\ entries[r] # "open") =>
              entries[r] = "none" /\ rootStatus[r] = "pending" /\ rootStatus'[r] = "running"
        /\ (rootStatus[r] = "pending" /\ rootStatus'[r] # "pending") =>
              /\ done'[r] = "open" /\ entries'[r] = "open"
              /\ \A q \in RootIdx \ {r} : done'[q] = done[q] /\ entries'[q] = entries[q]

\* C11: a root is started (its channels made, its walker, digesters and
\* drain loop running) only when every root before it is done or failed, only
\* one root runs at a time, and starting a root makes a done channel and an
\* entry stream that did not exist before and that no other root has open.
C11_RootsSequential == []C11_Inv /\ [][C11_Step]_vars

\* the first root is done, its done channel and entry stream closed, and the
\* second root runs on channels of its own
C11_Witness ==
    /\ rootStatus[1] = "done" /\ rootStatus[2] = "running"
    /\ done[1] = "closed" /\ entries[1] = "closed"
    /\ done[2] = "open" /\ entries[2] = "open"
    /\ \E i \in Files : hist.received[2][i] > 0

\* a tx.Commit() that returned nil
CommitOk == opc = "commit" /\ opc' = "draining" /\ hist'.persistLog = hist.persistLog

\* the Entry of position i was committed in root r
Committed(r, i) == hist.begun[r][i] = 1 /\ i \notin hist.persistLog[r] /\
                   ~(cur = r /\ opc \in {"begin", "prepare", "exec", "commit"} /\ ent.path[2] = i)

C12_Inv ==
    \A row \in Rows :
        /\ CopiesIn(row, store) = 1
        /\ \A other \in Rows :
              (other.hash = row.hash /\ other.path = row.path) => other = row

C12_Step ==
    CommitOk =>
        /\ CopiesIn(RowOf(ent), store') = 1
        /\ BagCardinality(store') =
              BagCardinality(store) + (IF Conflicting(store, RowOf(ent)) = {} THEN 1 ELSE 0)

\* C12: the table never holds two rows with one (hash, path) key; a commit of
\* the row of an unchanged file whose key is already in the table leaves the
\* number of rows as it was, and the table then holds that row once.
C12_UpsertIdempotent == []C12_Inv /\ [][C12_Step]_vars

\* over two overlapping roots the Entry of one file was committed twice, and
\* the table holds one row for its path
C12_Witness ==
    /\ roots = SameRoots
    /\ Committed(1, 2) /\ Committed(2, 2)
    /\ Cardinality({row \in Rows : row.path = <<1, 2>>}) = 1
    /\ BagCardinality(store) = Cardinality({i \in Files : Committed(1, i)})

\* the rows of the table for position i of root r
RowsOf(r, i) == {row \in Rows : row.path = <<roots[r], i>>}

\* root r ended done with no digest error and no transaction failure logged
CleanRun(r) ==
    /\ ~strict /\ parallelism >= 1
    /\ prior = EmptyBag
    /\ rootStatus[r] = "done"
    /\ hist.digestLog[r] = {} /\ hist.persistLog[r] = {}

\* C13: after a root ended done with no digest or persist failure, the table
\* holds one row for the path of every admitted file, and the rows of two
\* admitted files carry the same hash exactly if the files have the same
\* content.
C13_DuplicatesShareHash ==
    \A r \in RootIdx :
        CleanRun(r) =>
            \A i \in AdmittedFiles :
                /\ Cardinality(RowsOf(r, i)) = 1
                /\ \A j \in AdmittedFiles :
                      \A ri \in RowsOf(r, i) : \A rj \in RowsOf(r, j) :
                          ri.hash = rj.hash <=> Content(i) = Content(j)

\* three admitted files, two of them with the same content: three rows, two
\* of them with one hash
C13_Witness ==
    /\ CleanRun(1)
    /\ AdmittedFiles = Files
    /\ Content(2) = Content(3) /\ Content(1) # Content(2)
    /\ Cardinality({row \in Rows : row.path[1] = roots[1]}) = MaxFiles
    /\ \E r2 \in RowsOf(1, 2) : \E r3 \in RowsOf(1, 3) : \E r1 \in RowsOf(1, 1) :
          r2.hash = r3.hash /\ r1.hash # r2.hash

Finished(r) == rootStatus[r] \in {"done", "failed"}

\* C14: the done channel of a root is closed exactly when the root's run has
\* finished, whether it ended done, failed on an Entry's error or failed on
\* the walk's error, and close(done) was then called exactly once; it is
\* never called twice.
C14_DoneClosedOnceOnExit ==
    \A r \in RootIdx :
        /\ hist.closed.done[r] <= 1
        /\ Finished(r) <=> done[r] = "closed"
        /\ Finished(r) <=> hist.closed.done[r] = 1

\* the strict drain loop returned on an Entry's error while a digester was
\* still running: done is closed, once
C14_Witness ==
    /\ strict /\ rootStatus[1] = "failed" /\ retErr = OpenErr
    /\ done[1] = "closed" /\ hist.closed.done[1] = 1
    /\ \E w \in Workers : dpc[w] = "sending"

C15_Inv ==
    \A r \in RootIdx :
        /\ hist.closed.entries[r] <= 1
        /\ entries[r] = "closed" <=> hist.closed.entries[r] = 1
        /\ (entries[r] = "closed" /\ r = cur) =>
              /\ wg = 0
              /\ watch = "exited"
              /\ \A w \in Workers : dpc[w] \in {"none", "exited"}

C15_Step ==
    /\ \A r \in RootIdx :
          /\ (entries'[r] = "closed" /\ entries[r] # "closed") =>
                /\ r = cur /\ watch = "waiting" /\ watch' = "exited"
                /\ wg = 0
                /\ \A w \in Workers : dpc[w] \in {"none", "exited"}
          /\ entries[r] = "closed" => hist'.received[r] = hist.received[r]
    /\ (~strict /\ opc = "draining" /\ opc' \notin {"draining"} \cup TxStates) =>
          entries[cur] = "closed" /\ opc' = "errs"

\* C15: the entry stream of a root is closed at most once, by the watcher,
\* when the WaitGroup counter is zero and every digester has returned; no
\* Entry is received from it after the close; and the drain loop of the
\* filtering revision is left only when the stream is closed.
C15_EntriesClosedByWatcher == []C15_Inv /\ [][C15_Step]_vars

\* two digesters delivered Entries and returned, the watcher closed the entry
\* stream once and the drain loop ended
C15_Witness ==
    /\ ~strict /\ parallelism = 2
    /\ opc = "errs"
    /\ entries[1] = "closed" /\ hist.closed.entries[1] = 1
    /\ \A w \in Workers : dpc[w] = "exited"
    /\ \A i \in Files : hist.received[1][i] = 1

\* what can end a walk: the tree exhausted, an enumeration error, cancellation
WalkResults == {<<NoErr>>, <<EnumErr>>, <<WalkCanceled>>}

C16_Inv ==
    \A r \in RootIdx :
        /\ hist.closed.paths[r] <= 1
        /\ paths[r] = "closed" <=> hist.closed.paths[r] = 1
        /\ paths[r] = "closed" => wpc[r] = "exited" /\ hist.result[r] \in WalkResults
        /\ wpc[r] = "walking" => paths[r] = "open" /\ hist.result[r] = <<>>

C16_Step ==
    \A r \in RootIdx :
        /\ (paths'[r] = "closed" /\ paths[r] # "closed") =>
              wpc[r] = "closing" /\ hist.result[r] \in WalkResults
        /\ paths[r] = "closed" => hist'.emitted[r] = hist.emitted[r]

\* C16: the path stream of a root is closed at most once, by its walker and
\* only after Walk has returned (nil, the enumeration error or "walk
\* canceled") and the result is on errs; no path is sent on it after the
\* close.
C16_PathsClosedAfterWalk == []C16_Inv /\ [][C16_Step]_vars

\* a walk that ended on cancellation after it had emitted a path: the path
\* stream is closed, once
C16_Witness ==
    /\ hist.result[1] = <<WalkCanceled>>
    /\ paths[1] = "closed" /\ hist.closed.paths[1] = 1
    /\ \E i \in Files : hist.emitted[1][i] = 1

\* the walker of the current root is in the select for the file at position i
SendPending(i) ==
    /\ wpc[cur] = "walking" /\ wpos = i
    /\ IsRegular(i) /\ PassesFilter(i)

C17_Inv ==
    /\ hist.result[cur] = <<WalkCanceled>> =>
          /\ done[cur] = "closed"
          /\ wpos <= MaxFiles /\ IsRegular(wpos) /\ PassesFilter(wpos)
          /\ \A j \in wpos..MaxFiles : hist.emitted[cur][j] = 0
          /\ wpc[cur] = "exited" \/ errs = <<WalkCanceled>>
    /\ hist.result[cur] = <<NoErr>> => wpos > MaxFiles

C17_Step ==
    /\ (hist'.result[cur] = <<WalkCanceled>> /\ hist.result[cur] = <<>>) =>
          /\ \E i \in Files : SendPending(i)
          /\ done[cur] = "closed"
          /\ errs' = <<WalkCanceled>>
    /\ (cur' = cur /\ hist.result[cur] # <<>>) =>
          /\ wpos' = wpos
          /\ hist'.emitted[cur] = hist.emitted[cur]
          /\ hist'.result[cur] = hist.result[cur]

\* C17: the walk ends with "walk canceled" only from a pending send with done
\* closed; it then visits no further file and sends no further path, and the
\* error is what the walker puts on errs; a walk that returns nil has gone
\* through the whole tree.  Under fair scheduling a send pending with done
\* closed is either taken by a digester or ends the walk with "walk canceled".
C17_CancelAbandonsWalk ==
    /\ []C17_Inv
    /\ [][C17_Step]_vars
    /\ \A i \in Files :
          (SendPending(i) /\ done[cur] = "closed")
              ~> (hist.emitted[cur][i] = 1 \/ hist.result[cur] = <<WalkCanceled>>)

\* the walk was canceled on the send of the second file with a third file
\* still to visit: nothing was emitted from there on and the walker exited
C17_Witness ==
    /\ hist.result[1] = <<WalkCanceled>>
    /\ wpos = 2 /\ IsRegular(3)
    /\ hist.emitted[1][2] = 0 /\ hist.emitted[1][3] = 0
    /\ wpc[1] = "exited"

C18_Inv ==
    \A r \in RootIdx :
        /\ \A j \in Files : ~Enumerated(j) => hist.emitted[r][j] = 0
        /\ hist.result[r] = <<EnumErr>> =>
              /\ WalkFails
              /\ rootStatus[r] # "done"
              /\ (~strict /\ Finished(r)) => opc = "returned" /\ retErr = EnumErr
        /\ (WalkFails /\ hist.result[r] # <<>>) =>
              hist.result[r] \in {<<EnumErr>>, <<WalkCanceled>>}

C18_Step ==
    /\ (hist'.result[cur] = <<EnumErr>> /\ hist.result[cur] = <<>>) =>
          /\ AtObject /\ tree[wpos] = "bad"
          /\ errs' = <<EnumErr>>
          /\ wpos' = wpos
    /\ (opc = "errs" /\ opc' # "errs" /\ errs = <<EnumErr>>) =>
          /\ opc' = "returned" /\ retErr' = EnumErr
          /\ rootStatus'[cur] = "failed"
          /\ cur' = cur

\* C18: when the walk callback is called with an error the walk ends there:
\* no file at or after that position is ever emitted, the error is what the
\* walker puts on errs, a walk over a tree with such an error never returns
\* nil, and the per-root function that reads it from errs returns it, the
\* root failed and Execute returning that error.
C18_EnumerationErrorAborts == []C18_Inv /\ [][C18_Step]_vars

\* a file before the enumeration error was emitted and stored, the file after
\* it was never emitted, and Execute returned the error
C18_Witness ==
    /\ ~strict
    /\ tree[1] = "file" /\ tree[2] = "bad" /\ tree[3] = "file"
    /\ hist.emitted[1][1] = 1 /\ hist.emitted[1][3] = 0
    /\ HasRow(1, 1)
    /\ hist.result[1] = <<EnumErr>>
    /\ rootStatus[1] = "failed" /\ opc = "returned" /\ retErr = EnumErr

\* the digesters that take the path of position i in the step
Takers(i) ==
    {w \in Workers : /\ dpc[w] = "ranging" /\ dpc'[w] = "sending"
                     /\ dent'[w].path = <<roots[cur], i>>}

C19_Inv ==
    /\ \A r \in RootIdx : \A i \in Files :
          /\ hist.delivered[r][i] = hist.emitted[r][i]
          /\ hist.delivered[r][i] <= 1
          /\ (parallelism >= 1 /\ Drained(r) /\ i \in AdmittedFiles) =>
                hist.delivered[r][i] = 1
    /\ \A w \in Workers : \A v \in Workers \ {w} :
          (dpc[w] = "sending" /\ dpc[v] = "sending") => dent[w].path # dent[v].path
    /\ \A w \in Workers :
          dpc[w] = "sending" => hist.delivered[cur][dent[w].path[2]] = 1

C19_Step ==
    \A i \in Files :
        /\ hist'.emitted[cur][i] # hist.emitted[cur][i] => Cardinality(Takers(i)) = 1
        /\ hist'.emitted[cur][i] = hist.emitted[cur][i] => Takers(i) = {}

\* C19: every send on the path stream is received by one digester and no
\* other, no two digesters work on the same path, and when the drain loop of a
\* root has ended on the closed entry stream every admitted file's path was
\* delivered, once.
C19_OneDigesterPerPath == []C19_Inv /\ [][C19_Step]_vars

\* two digesters hold the Entries of two different files, each path delivered
\* once
C19_Witness ==
    /\ parallelism = 2
    /\ dpc[1] = "sending" /\ dpc[2] = "sending"
    /\ dent[1].path # dent[2].path
    /\ hist.delivered[1][dent[1].path[2]] = 1
    /\ hist.delivered[1][dent[2].path[2]] = 1

\* the digesters trying to send the Entry of position i of root r
Holders(r, i) ==
    {w \in Workers : r = cur /\ dpc[w] = "sending" /\ dent[w].path[2] = i}

C20_Inv ==
    /\ \A w \in Workers :
          /\ hist.abandoned[w] <= 1
          /\ hist.abandoned[w] = 1 => dpc[w] = "exited" /\ done[cur] = "closed"
    /\ \A r \in RootIdx : \A i \in Files :
          /\ hist.delivered[r][i] =
                hist.received[r][i] + hist.dropped[r][i] + Cardinality(Holders(r, i))
          /\ hist.dropped[r][i] > 0 => done[r] = "closed"

C20_Step ==
    \A w \in Workers :
        /\ hist'.abandoned[w] # hist.abandoned[w] =>
              /\ dpc[w] = "sending" /\ done[cur] = "closed"
              /\ dpc'[w] = "exited" /\ wg' = wg - 1
              /\ hist'.received = hist.received
              /\ hist'.dropped[cur][dent[w].path[2]] = hist.dropped[cur][dent[w].path[2]] + 1
        /\ hist.abandoned[w] = 1 => dpc'[w] = "exited"

\* C20: a digester drops an Entry only in its select with done closed; it
\* then returns (wg.Done) and takes no further path; and every digest computed
\* was received by the drain loop, is still held by its digester, or was
\* dropped in that way.
C20_DropOnlyOnCancel == []C20_Inv /\ [][C20_Step]_vars

\* after the strict drain loop returned, a digester dropped the Entry of the
\* file it had hashed and exited, while the next file was still to be visited
C20_Witness ==
    /\ strict /\ opc = "returned"
    /\ \E w \in Workers :
          /\ hist.abandoned[w] = 1 /\ dpc[w] = "exited"
          /\ \E i \in Files : hist.dropped[1][i] = 1 /\ hist.received[1][i] = 0
    /\ \E i \in Files : hist.received[1][i] = 1

\* main: the parser's Parse returns what Execute returned; an error of
\* Execute ends in os.Exit(1), and with nil main falls off its end (exit 0)
ExitCode == IF retErr = NoErr THEN 0 ELSE 1

\* what Execute returns before the loop over the roots
ConfigErrors == {"no paths provided", "database", "regexp"}

\* C21: in the filtering revision, once Execute has returned, what it returned
\* is nil, a configuration error or the walk's error of a root; it is a
\* configuration error only with no root started, the walk's error exactly
\* if a root failed, and nil (exit code 0) exactly if every root is done,
\* whatever digest errors and transaction failures were logged.
C21_ErrorIffFatal ==
    (~strict /\ opc = "returned") =>
        /\ retErr \in {NoErr, EnumErr} \cup ConfigErrors
        /\ retErr \in ConfigErrors <=> \A r \in RootIdx : rootStatus[r] = "pending"
        /\ retErr = EnumErr <=>
              \E r \in RootIdx : rootStatus[r] = "failed" /\ hist.result[r] = <<EnumErr>>
        /\ ExitCode = 0 <=> \A r \in RootIdx : rootStatus[r] = "done"
        /\ ExitCode = 0 => ~WalkFails /\ ~CompileFails
        /\ CompileFails => retErr \in {"database", "regexp"}

\* Execute returned nil after a run that logged a digest error and a
\* transaction failure
C21_Witness ==
    /\ ~strict /\ opc = "returned"
    /\ ExitCode = 0
    /\ hist.digestLog[1] # {} /\ hist.persistLog[1] # {}
    /\ \A r \in RootIdx : rootStatus[r] = "done"

\* C22: a path is sent on the path stream only for a regular file; an object
\* that is not a regular file is never emitted, also when every accept
\* pattern matches its path and no reject pattern does.
C22_OnlyRegularFilesEmitted ==
    \A r \in RootIdx : \A i \in Files :
        /\ hist.emitted[r][i] > 0 => tree[i] \in {"file", "unreadable"}
        /\ tree[i] \in {"dir", "bad"} => hist.delivered[r][i] = 0 /\ hist.received[r][i] = 0

\* the walk went through a tree whose last object is a directory that the
\* accept pattern matches and the reject pattern does not: it was not emitted
C22_Witness ==
    /\ accepts = {PatternHigh} /\ rejects = {PatternLow}
    /\ tree[MaxFiles] = "dir" /\ PassesFilter(MaxFiles)
    /\ hist.result[1] = <<NoErr>>
    /\ hist.emitted[1][MaxFiles] = 0

\* C23: with an accept or reject pattern that does not compile, Execute
\* never gets to the loop over the roots: no root is started (no channel, no
\* walker, no digester, no watcher), no transaction is begun and no row is
\* written, and what Execute returns is an error.
C23_InvalidPatternFailsFast ==
    CompileFails =>
        /\ opc \in {"open", "compile", "returned"}
        /\ opc = "returned" => retErr \in {"database", "regexp"}
        /\ \A r \in RootIdx : rootStatus[r] = "pending" /\ ~Started(r)
        /\ \A w \in Workers : dpc[w] = "none"
        /\ watch = "none"
        /\ Rows = {} /\ openTx = 0
        /\ hist = HistInit

\* Execute returned the error of regexp.Compile
C23_Witness ==
    /\ CompileFails
    /\ opc = "returned" /\ retErr = "regexp"
    /\ \A r \in RootIdx : rootStatus[r] = "pending"

\* the (hash, path) keys of the rows of table s
Keys(s) == {<<row.hash, row.path>> : row \in BagToSet(s)}

C24_Inv ==
    /\ Keys(prior) \subseteq Keys(store)
    /\ \A r \in RootIdx : \A i \in Files :
          Committed(r, i) =>
              <<Sha256Hex(Content(i)), <<roots[r], i>>>> \in Keys(store)

C24_Step ==
    /\ Keys(store) \subseteq Keys(store')
    /\ \A row \in Rows :
          (CommitOk /\ <<row.hash, row.path>> # <<ent.hash, ent.path>>) =>
              CopiesIn(row, store') = CopiesIn(row, store)

\* C24: no step takes a key out of the table, and a committed upsert leaves
\* every row with another (hash, path) key as it was; so the row an earlier
\* run stored for a file whose content has changed since stays in the table
\* next to the row of the new content.
C24_StaleRowsKept == []C24_Inv /\ [][C24_Step]_vars

\* the file whose content changed was indexed again: the table holds the row
\* of its old hash and the row of its new hash for the one path
C24_Witness ==
    /\ prior = EarlierRows
    /\ Committed(1, 1)
    /\ <<Sha256Hex("older!"), <<1, 1>>>> \in Keys(store)
    /\ <<Sha256Hex(Content(1)), <<1, 1>>>> \in Keys(store)
    /\ Cardinality({row \in Rows : row.path = <<1, 1>>}) = 2

\* the rows of table s with the (hash, path) key of Entry e
RowsWithKey(s, e) == {row \in BagToSet(s) : row.hash = e.hash /\ row.path = e.path}

C25_Inv ==
    \A r \in RootIdx : \A i \in Files :
        Committed(r, i) =>
            RowsWithKey(store, DigestFile(<<roots[r], i>>)) =
                {RowOf(DigestFile(<<roots[r], i>>))}

C25_Step ==
    CommitOk =>
        /\ RowsWithKey(store', ent) = {RowOf(ent)}
        /\ \A row \in RowsWithKey(store', ent) :
              row.bucket = bucket /\ row.size = ent.size

\* C25: after a committed upsert the one row with the Entry's (hash, path)
\* key is the row of that Entry, with the bucket and size of the Entry,
\* whatever row with that key the table held before.
C25_ReinsertOverwritesAttributes == []C25_Inv /\ [][C25_Step]_vars

\* the unchanged file an earlier run stored under another bucket was indexed
\* again: its one row now has the bucket of this run
C25_Witness ==
    /\ prior = EarlierRows
    /\ bucket # "earlier"
    /\ Committed(1, 2)
    /\ \E row \in BagToSet(prior) :
          row.path = <<1, 2>> /\ row.hash = Sha256Hex(Content(2)) /\ row.bucket = "earlier"
    /\ {row.bucket : row \in {x \in Rows : x.path = <<1, 2>>}} = {bucket}

\* the step is one of the goroutine that called Execute, inside the drain
\* loop, and of no other goroutine
WriterStep ==
    /\ opc \in TxStates /\ opc' \in TxStates \cup {"draining"}
    /\ UNCHANGED <<walker, digesters, watch, chans>>

C26_Step ==
    /\ store' # store =>
          /\ WriterStep /\ opc = "commit"
          /\ store' = Upsert(store, RowOf(ent))
    /\ (wpc' # wpc \/ wpos' # wpos \/ dpc' # dpc \/ watch' # watch \/ wg' # wg) =>
          store' = store

\* C26: the table changes only in a step of the drain loop's transaction, run
\* by the goroutine that called Execute (the commit of the Entry it holds); a
\* step of the walker, of a digester or of the watcher leaves the table as it
\* is.
C26_OnlyWriterChangesStore == [][C26_Step]_vars

\* a row was written while a digester was trying to send the next Entry and
\* the walker was still walking
C26_Witness ==
    /\ store # prior
    /\ opc = "draining"
    /\ wpc[cur] = "walking"
    /\ \E w \in Workers : dpc[w] = "sending"

\* Entry e is what the claim says digest emits for the file at position i of
\* directory d
WellFormedEntry(e, d, i) ==
    /\ e.path = <<d, i>>
    /\ e.bucket = bucket
    /\ tree[i] \in {"file", "unreadable"}
    /\ tree[i] = "file" =>
          /\ e.err = NoErr
          /\ e.hash = Sha256Hex(Content(i))
          /\ e.size = ByteCount(Content(i))
    /\ tree[i] = "unreadable" =>
          /\ e.err # NoErr
          /\ e.hash = ""
          /\ e.size = 0

C27_Inv ==
    /\ \A w \in Workers :
          dpc[w] = "sending" =>
              /\ WellFormedEntry(dent[w], roots[cur], dent[w].path[2])
              /\ hist.delivered[cur][dent[w].path[2]] = 1
              /\ hist.received[cur][dent[w].path[2]] = 0
    /\ opc \in TxStates =>
          /\ WellFormedEntry(ent, roots[cur], ent.path[2])
          /\ hist.received[cur][ent.path[2]] = 1
    /\ \A r \in RootIdx : \A i \in Files :
          hist.received[r][i] <= hist.delivered[r][i] /\ hist.received[r][i] <= 1

C27_Step ==
    \A w \in Workers :
        (dpc[w] = "ranging" /\ dpc'[w] = "sending") =>
            /\ WellFormedEntry(dent'[w], roots[cur], wpos)
            /\ hist'.delivered[cur][wpos] = hist.delivered[cur][wpos] + 1

\* C27: the Entry a digester tries to send for a path it received has that
\* path and the run's bucket, and either no error, the hash of the file's
\* content and its byte count, or an error, the empty hash and size 0; the
\* drain loop receives at most one Entry for a path delivered to a digester,
\* and the Entry it stores is of the first kind.
C27_OneWellFormedEntryPerPath == []C27_Inv /\ [][C27_Step]_vars

\* one digester holds the Entry of a file it could not read, the other the
\* Entry of a file it hashed
C27_Witness ==
    /\ parallelism = 2
    /\ dpc[1] = "sending" /\ dpc[2] = "sending"
    /\ dent[1].err # NoErr /\ dent[1].hash = "" /\ dent[1].size = 0
    /\ dent[2].err = NoErr /\ dent[2].size = ByteCount(Content(dent[2].path[2]))

C28_Inv ==
    \A r \in RootIdx :
        (~strict /\ parallelism >= 1 /\ rootStatus[r] = "failed") =>
            /\ hist.result[r] = <<EnumErr>>
            /\ entries[r] = "closed"
            /\ \A i \in Files :
                  hist.emitted[r][i] = 1 =>
                      /\ hist.received[r][i] = 1
                      /\ tree[i] = "unreadable" => i \in hist.digestLog[r]
                      /\ tree[i] = "file" =>
                            (i \in hist.persistLog[r] \/ HasRow(r, i))

C28_Step ==
    errs' # errs /\ Len(errs') < Len(errs) =>
        /\ opc = "errs"
        /\ entries[cur] = "closed"
        /\ \A w \in Workers : dpc[w] \in {"none", "exited"}
        /\ ent = NoEntry

\* C28: the walk's result is taken from errs only after the drain loop has
\* ended on the closed entry stream, with no Entry left in a digester or in a
\* transaction; so when a root of the filtering revision is failed on an
\* enumeration error, every path emitted before the error had its Entry
\* received, and its row written unless its digest or its transaction failed.
C28_ErrsReadAfterDrain == []C28_Inv /\ [][C28_Step]_vars

\* the walk failed on the last object after two files were emitted: both rows
\* are in the table and the root is failed
C28_Witness ==
    /\ ~strict /\ parallelism = 2
    /\ tree[1] = "file" /\ tree[2] = "file" /\ tree[MaxFiles] = "bad"
    /\ rootStatus[1] = "failed"
    /\ HasRow(1, 1) /\ HasRow(1, 2)

\* no goroutine of the pipeline has taken the <-done case of its select
NoCancellationSeen ==
    /\ \A r \in RootIdx : hist.result[r] # <<WalkCanceled>>
    /\ hist.afterCancel = 0
    /\ \A w \in Workers : hist.abandoned[w] = 0
    /\ \A r \in RootIdx : \A i \in Files : hist.dropped[r][i] = 0

\* C29 as stated: in the filtering revision the done channel of a root is
\* closed only after the root's walker goroutine and all its digesters have
\* terminated, and no goroutine ever observes cancellation.
C29_ClosedAfterAllTerminated ==
    ~strict =>
        /\ NoCancellationSeen
        /\ \A r \in RootIdx :
              done[r] = "closed" =>
                  /\ wpc[r] = "exited"
                  /\ r = cur => \A w \in Workers : dpc[w] \in {"none", "exited"}

\* C29: in the filtering revision the done channel of a root is closed only
\* after Walk has returned and its result was read from errs, and after every
\* digester has returned; with P >= 1 the walker goroutine has then closed
\* the path stream and exited, while with P = 0 it may still have that close
\* to run.  No walker or digester takes the <-done case and the walk's result
\* is never "walk canceled".
C29_ClosedAfterWalkReturned ==
    ~strict =>
        /\ NoCancellationSeen
        /\ \A r \in RootIdx :
              done[r] = "closed" =>
                  /\ wpc[r] \in {"closing", "exited"}
                  /\ hist.result[r] \in {<<NoErr>>, <<EnumErr>>}
                  /\ entries[r] = "closed"
                  /\ parallelism >= 1 => wpc[r] = "exited" /\ paths[r] = "closed"
                  /\ r = cur => \A w \in Workers : dpc[w] \in {"none", "exited"}

\* with no digester, the done channel of a root without admitted files is
\* closed while its walker has still to close the path stream
C29_Witness ==
    /\ ~strict /\ parallelism = 0
    /\ done[1] = "closed" /\ rootStatus[1] = "done"
    /\ wpc[1] = "closing" /\ paths[1] = "open"
    /\ hist.result[1] = <<NoErr>>

\* a run without digesters over a tree in which the walk reaches an admitted
\* regular file
NoDigesterRun == parallelism = 0 /\ AdmittedFiles # {}

\* the first root's entry stream is closed, the calling goroutine waits for
\* the walk's result, the walker waits in the send of the first admitted file
\* and done is open
Stuck ==
    /\ rootStatus[1] = "running" /\ cur = 1
    /\ entries[1] = "closed" /\ watch = "exited"
    /\ opc = "errs" /\ errs = <<>>
    /\ wpc[1] = "walking" /\ wpos \in Files /\ SendPending(wpos)
    /\ \A i \in AdmittedFiles : wpos <= i
    /\ done[1] = "open" /\ paths[1] = "open"

C30_Inv ==
    NoDigesterRun =>
        /\ \A r \in RootIdx : ~Finished(r) /\ done[r] # "closed"
        /\ \A r \in RootIdx : r > 1 => rootStatus[r] = "pending"
        /\ \A r \in RootIdx : \A i \in Files : hist.emitted[r][i] = 0
        /\ hist.result[1] = <<>>
        /\ opc = "returned" => \A r \in RootIdx : rootStatus[r] = "pending"
        /\ entries[1] = "closed" => hist.closed.entries[1] = 1 /\ wg = 0

\* C30: with parallelism 0 and an admitted regular file reached by the walk,
\* the first root never finishes and its done channel is never closed; under
\* fair scheduling the root, once started, comes to the state where the entry
\* stream is closed, the calling goroutine waits on errs and the walker waits
\* on the send of the first admitted file, and no step leads out of it.
C30_NoDigesterNeverFinishes ==
    /\ []C30_Inv
    /\ (NoDigesterRun /\ rootStatus[1] = "running") ~> Stuck
    /\ [][(NoDigesterRun /\ Stuck) => Stuck']_vars

\* the run without digesters is stuck on the second object, a regular file
\* after a directory
C30_Witness ==
    /\ NoDigesterRun
    /\ tree[1] = "dir" /\ tree[2] = "file"
    /\ Stuck /\ wpos = 2
    /\ ~ENABLED Next

\* the walker of the current root has put Walk's result on errs, closed the
\* path stream and exited, and the result is still there
ResultWaiting ==
    /\ Len(errs) = 1
    /\ hist.result[cur] = <<errs[1]>>
    /\ errs[1] \in {NoErr, EnumErr}
    /\ wpc[cur] = "exited" /\ paths[cur] = "closed"

C31_Inv ==
    parallelism >= 1 =>
        /\ (opc = "draining" /\ entries[cur] = "closed") => ResultWaiting
        /\ opc = "errs" => ResultWaiting /\ ENABLED ReadErrs

C31_Step ==
    (parallelism >= 1 /\ opc = "draining" /\ opc' = "errs") =>
        /\ entries[cur] = "closed"
        /\ \A w \in Workers : dpc[w] \in {"none", "exited"}
        /\ ResultWaiting /\ errs' = errs

\* C31: with P >= 1, when range entries ends on the closed entry stream the
\* walker has already sent Walk's result on errs, closed the path stream and
\* exited, so the receive from errs that follows can be taken at once and no
\* walking is left to wait for.
C31_ResultReadyAtDrainEnd == []C31_Inv /\ [][C31_Step]_vars

\* two digesters, the walk failed on the last object after it emitted two
\* files: the drain loop has ended and the enumeration error is on errs
C31_Witness ==
    /\ parallelism = 2
    /\ opc = "errs"
    /\ errs = <<EnumErr>>
    /\ hist.emitted[1][1] = 1 /\ hist.emitted[1][2] = 1
    /\ rootStatus[1] = "running"

C32_Inv ==
    /\ \A r \in RootIdx :
        /\ wpc[r] = "walking" =>
              r = cur /\ Len(errs) < ErrsCap /\ hist.result[r] = <<>>
        /\ wpc[r] \in {"closing", "exited"} <=> hist.result[r] \in WalkResults
        /\ r = cur => Len(errs) <= 1
    /\ (AtObject /\ tree[wpos] = "bad") => ENABLED WalkError
    /\ (AtObject /\ IsRegular(wpos) /\ PassesFilter(wpos)
            /\ done[cur] = "closed") => ENABLED WalkCancel
    /\ (wpc[cur] = "walking" /\ wpos > MaxFiles) => ENABLED WalkReturn

C32_Step ==
    /\ Len(errs') > Len(errs) =>
          /\ wpc[cur] = "walking" /\ wpc'[cur] = "closing"
          /\ hist.result[cur] = <<>>
          /\ errs' = Append(errs, hist'.result[cur][1])
    /\ \A r \in RootIdx :
          /\ hist.result[r] # <<>> => hist'.result[r] = hist.result[r]
          /\ (hist.result[r] = <<>> /\ hist'.result[r] # <<>>) =>
                r = cur /\ Len(errs') = Len(errs) + 1

\* C32: the walker of a root sends Walk's result on errs once; whenever it
\* is still walking the buffer of errs is free, so the send is taken without a
\* receiver, also after the calling goroutine has returned on an Entry's error
\* without reading errs; once the result is sent, and with P >= 1 from any
\* point of the walk, the walker goroutine comes to close the path stream and
\* exits.
C32_OneResultSendNeverBlocks ==
    /\ []C32_Inv
    /\ [][C32_Step]_vars
    /\ \A r \in RootIdx :
          (wpc[r] = "closing" \/ (parallelism >= 1 /\ wpc[r] = "walking"))
              ~> (wpc[r] = "exited" /\ paths[r] = "closed")

\* the strict revision has returned on an Entry's error; the walker has sent
\* "walk canceled" on errs, which nobody reads, and closed the path stream
C32_Witness ==
    /\ strict /\ opc = "returned" /\ retErr = OpenErr
    /\ errs = <<WalkCanceled>>
    /\ hist.result[1] = <<WalkCanceled>>
    /\ wpc[1] = "exited" /\ paths[1] = "closed"
    /\ hist.closed.paths[1] = 1

\* the per-root function has not been entered for any root
NoRootWalked ==
    /\ \A r \in RootIdx :
          /\ rootStatus[r] = "pending" /\ wpc[r] = "none"
          /\ hist.result[r] = <<>>
          /\ \A i \in Files : hist.emitted[r][i] = 0
    /\ store = prior

C33_Inv ==
    /\ MigrationRequested <=> (up \/ down)
    /\ hist.called # "none" => strict /\ (up \/ down)
    /\ hist.called = "down" => down /\ ~up
    /\ (up /\ down) => hist.called \in {"none", "up"}
    /\ migrated # "none" => migrated = hist.called
    /\ (strict /\ opc \notin {"open", "migrate"} /\ retErr \notin {"database", "migration"}) =>
          migrated = (IF up THEN "up" ELSE IF down THEN "down" ELSE "none")
    /\ retErr = "migration" =>
          /\ strict /\ (up \/ down)
          /\ opc = "returned" /\ migrated = "none"
          /\ NoRootWalked

C33_Step ==
    (opc = "migrate" /\ opc' # "migrate") =>
        /\ NoRootWalked
        /\ IF up \/ down
           THEN \/ opc' = "loop" /\ migrated' # "none" /\ retErr' = retErr
                \/ opc' = "returned" /\ retErr' = "migration" /\ NoRootWalked'
           ELSE opc' = "loop" /\ hist'.called = "none" /\ migrated' = "none"

====
